---- MODULE Spec2Model ----
(***************************************************************************)
(* State-machine model of the portfolio backend: the Express application   *)
(* of src/server.js (connection-per-request, multer disk storage) and the  *)
(* earlier application kept in src/unnamed/part_000 (pool.query, multer    *)
(* with dest only).  Both talk to MySQL through mysql2/promise             *)
(* (src/db/dbconfig.js:1), whose query(sql, values) takes two arguments:   *)
(* a third (callback) argument is never invoked, and the returned promise  *)
(* settles when the statement has completed.                               *)
(*                                                                         *)
(* One request occupies one slot.  JavaScript runs a handler without       *)
(* interruption between two awaits, so every action is one such segment.   *)
(***************************************************************************)
EXTENDS Integers, Sequences, FiniteSets, TLC

(* ------------------------------ bounds -------------------------------- *)
\* concurrent request slots
NReq == 1
\* connections that can be held at once before getConnection waits.  The
\* driver itself sets no limit (connectionLimit: 0); the bound stands for
\* the limit of the deployment
PoolSize == 1
\* rows ever inserted into the data table (AUTO_INCREMENT ids 1..MaxRows)
MaxRows == 1
\* values Date.now() takes: 0..MaxTime
MaxTime == 1

Slots == 1..NReq

(* ------------------------------ values -------------------------------- *)
\* JavaScript undefined
Absent == "<undefined>"
\* a request parameter no handler has looked at yet
Unread == "<unread>"

\* the one table that exists besides users; any other name is unknown to MySQL
TableNames == {"t1"}

\* SqlString.escapeId(String(v)) as mysql2 applies it to a ?? placeholder
EscapeId(v) == IF v = Absent THEN "undefined" ELSE v

\* bcrypt: a hash of the password, and compare(password, hash)
BcryptHash(pw) == "$2b$" \o pw
\* a comparison whose result is not looked at
BcryptCompareIgnored(pw, hash) == TRUE
BcryptCompare(pw, hash) == BcryptHash(pw) = hash

\* the rows of the users table (read-only for this program)
UsersTable == { [id |-> "1", email |-> "a@x.io", password |-> BcryptHash("pw")] }

NoToken == [id |-> Absent, email |-> Absent, expiresIn |-> Absent]
\* jwt.sign({id, email}, SECRET_KEY, {expiresIn: "1h"})
JwtSign(user) == [id |-> user.id, email |-> user.email, expiresIn |-> "1h"]

(* ------------------------- request inputs ----------------------------- *)
\* each field takes a value that passes its check and values that do not
TitleValues == {"", "x"}
ContentValues == {Absent, "x"}
LinkValues == {"x", "http://x.io"}
CategoryValues == {"web", "d-only"}
ContactValues == {Absent, "", "bob", "a@x.io"}
EmailValues == {Absent, "", "a@x.io", "b@x.io"}
PasswordValues == {Absent, "", "pw", "bad"}
TableValues == {Absent, "t1", "zz"}
IdValues == {"", "1", "9"}
ImageStrings == {Absent, "", "old.png"}
PdfStrings == {Absent, "old.pdf"}

\* zod's email and url formats, on the values above
IsEmail(v) == v \in {"a@x.io", "b@x.io"}
IsUrl(v) == v \in {"http://x.io"}

\* an uploaded part: original name and declared MIME type
OrigNames == {"a.png", "c.exe"}
\* path.extname(file.originalname).toLowerCase()
ExtName(orig) == IF orig = "a.png" THEN ".png" ELSE ".exe"
MimeTypes == {"image/png", "application/x-msdownload"}
NoPart == [originalname |-> Absent, mimetype |-> Absent]
Parts == [originalname : OrigNames, mimetype : MimeTypes]

\* /jpeg|jpg|png|gif|pdf/.test(s) on the extensions and MIME types above
FiletypesTest(s) == s \in {".png", ".pdf", ".jpg", ".jpeg", ".gif",
                           "image/png", "application/pdf"}

\* fileFilter: both the extension and the MIME type must match
FileFilter(part) ==
  FiletypesTest(ExtName(part.originalname)) /\ FiletypesTest(part.mimetype)

\* storage.filename: `${Date.now()}_${file.originalname}`
StorageFilename(t, part) == ToString(t) \o "_" \o part.originalname

\* multer({dest: "public/"}): a random name, never one already in use
RandomNames == {"3f9a"}

(* ------------------------------ zod ----------------------------------- *)
Issue(f, m) == [field |-> f, message |-> m]

\* z.string().min(1, msg)
StringMin1(f, v, msg) ==
  IF v = Absent THEN << Issue(f, "Required") >>
  ELSE IF v = "" THEN << Issue(f, msg) >> ELSE << >>

\* z.string().min(1, msg).email(msg2): every check of a string runs
StringMin1Email(f, v, msg, msg2) ==
  IF v = Absent THEN << Issue(f, "Required") >>
  ELSE (IF v = "" THEN << Issue(f, msg) >> ELSE << >>)
       \o (IF IsEmail(v) THEN << >> ELSE << Issue(f, msg2) >>)

\* z.string().url(msg)
StringUrl(f, v, msg) ==
  IF v = Absent THEN << Issue(f, "Required") >>
  ELSE IF IsUrl(v) THEN << >> ELSE << Issue(f, msg) >>

\* z.enum(["d-only", "d-and-d"], ...)
EnumCategory(f, v) ==
  IF v = Absent THEN << Issue(f, "Required") >>
  ELSE IF v \in {"d-only", "d-and-d"} THEN << >>
  ELSE << Issue(f, "Invalid enum value") >>

formSchema(in) ==
  StringMin1("fullName", in.fullName, "Full Name is required")
  \o StringMin1Email("contact", in.contact,
       "Email Address or Phone Number is required", "Invalid email format")
  \o StringMin1("message", in.message, "Message is required")

loginSchema(in) ==
  StringMin1("email", in.email, "Email is required")
  \o StringMin1("password", in.password, "Password is required")

schema(in) ==
  StringMin1("title", in.title, "Title is required")
  \o StringMin1("content", in.content, "Content is required")
  \o StringUrl("link", in.link, "Link must be a valid URL")
  \o EnumCategory("category", in.category)
  \o StringMin1("image", in.image, "Image path is required")

editSchema(in) ==
  schema(in) \o StringMin1("id", in.id, "ID is required")

\* pdfFile: z.string().optional() accepts every value the handlers pass
projectSchema(in) ==
  StringMin1("image", in.image, "Image path is required")

projectEditSchema(in) ==
  projectSchema(in) \o StringMin1("id", in.id, "ID is required")

(* ------------------------------ state --------------------------------- *)
VARIABLES
  req,      \* req[r]: the request in slot r and how far its handler has run
  held,     \* pooled connections acquired and not released
  db,       \* db[t]: the rows of table t
  nextId,   \* the AUTO_INCREMENT counter of the data table
  files,    \* the file names present in public/
  now       \* Date.now()

vars == << req, held, db, nextId, files, now >>

NoRow == [title |-> Absent, content |-> Absent, link |-> Absent,
          category |-> Absent, image |-> Absent, pdf |-> Absent]
NoStmt == [op |-> "none", table |-> Absent, id |-> Absent, email |-> Absent,
           row |-> NoRow]

Idle == [pc |-> "idle", prog |-> "-", route |-> "-", ctype |-> "-",
         conn |-> FALSE, image |-> Absent, pdf |-> Absent,
         disallowed |-> FALSE,
         bodyImage |-> Unread, bodyPdfFile |-> Unread,
         table |-> Unread, email |-> Unread, password |-> Absent,
         offending |-> {}, validated |-> "no",
         stmt |-> NoStmt, dbres |-> "none", affected |-> 0, rows |-> {},
         resp |-> << >>]

ServerRoutes == {"send-mail", "login", "apps", "edit/apps", "get/apps",
                 "get/edit/apps", "projects", "edit/projects", "get/projects",
                 "get/edit/projects", "projects/delete", "/"}
LegacyRoutes == {"send-mail", "login", "apps", "get/apps", "projects",
                 "get/projects"}
UploadRoutes == {"apps", "edit/apps", "projects", "edit/projects"}
GetRoutes == {"get/apps", "get/edit/apps", "get/projects",
              "get/edit/projects", "projects/delete"}

\* res.status(s).json({status: kind, message | error, errors, token, results})
Response(s, kind, message) ==
  [status |-> s, kind |-> kind, message |-> message, errors |-> << >>,
   token |-> NoToken, hasResults |-> FALSE, results |-> {}]

\* catch (error) of the POST routes: a ZodError is a 400 with its issues
ZodErrorResponse(issues) ==
  [Response(400, "fail", Absent) EXCEPT !.errors = issues]
\* catch (error) of the POST routes: neither a ZodError nor error.response
UnexpectedResponse == Response(500, "error", "An unexpected error occurred")
\* catch (error) of the GET routes
QueryFailedResponse == Response(500, "fail", "Database query failed")
\* app.use((err, req, res, next) => ...)
GlobalErrorResponse == Response(500, "error", "Internal Server Error")

\* the fields of a submission that are offending: those with an issue
Fields(issues) == { issues[i].field : i \in 1..Len(issues) }

Send(q, resp) == [q EXCEPT !.resp = Append(@, resp)]
Finished(q) == [q EXCEPT !.pc = "done"]

Init ==
  /\ req = [r \in Slots |-> Idle]
  /\ held = 0
  /\ db = [t \in TableNames |-> {}]
  /\ nextId = 1
  /\ files = {}
  /\ now = 0

\* a request reaches the application
Arrive(r) ==
  /\ req[r].pc = "idle"
  /\ \E prog \in {"server", "part_000"} :
     \E route \in (IF prog = "server" THEN ServerRoutes ELSE LegacyRoutes) :
     \E ctype \in (IF route \in UploadRoutes THEN {"json", "multipart"}
                   ELSE IF route \in GetRoutes \cup {"/"} THEN {"none"}
                   ELSE {"json"}) :
       req' = [req EXCEPT ![r] =
                 [Idle EXCEPT !.pc = IF route \in UploadRoutes THEN "upload"
                                     ELSE "handler",
                              !.prog = prog, !.route = route, !.ctype = ctype]]
  /\ UNCHANGED << held, db, nextId, files, now >>

(* ------------------------------ multer -------------------------------- *)
\* uploadImageOnly = multer({storage, fileFilter}).single("image"), also when
\* reached through checkImageType: a request that is not multipart passes
\* untouched; an accepted part is written to public/ before the handler runs
UploadImageOnly(r) ==
  LET q == req[r] IN
  /\ q.pc = "upload" /\ q.prog = "server" /\ q.route \in {"apps", "edit/apps"}
  /\ IF q.ctype # "multipart"
     THEN /\ req' = [req EXCEPT ![r].pc = "handler"]
          /\ UNCHANGED files
     ELSE \E part \in Parts \cup {NoPart} :
            IF part = NoPart
            THEN /\ req' = [req EXCEPT ![r].pc = "handler"]
                 /\ UNCHANGED files
            ELSE IF ~FileFilter(part)
            THEN /\ req' = [req EXCEPT ![r] =
                              Finished(Send([q EXCEPT !.disallowed = TRUE],
                                            GlobalErrorResponse))]
                 /\ UNCHANGED files
            ELSE /\ files' = files \cup {StorageFilename(now, part)}
                 /\ req' = [req EXCEPT ![r].pc = "handler",
                                       ![r].image = StorageFilename(now, part)]
  /\ UNCHANGED << held, db, nextId, now >>

\* upload = multer({storage, fileFilter}).fields([image, pdfFile]), also when
\* reached through handleUpload: the image part
UploadFieldsImage(r) ==
  LET q == req[r] IN
  /\ q.pc = "upload" /\ q.prog = "server"
  /\ q.route \in {"projects", "edit/projects"}
  /\ IF q.ctype # "multipart"
     THEN /\ req' = [req EXCEPT ![r].pc = "handler"]
          /\ UNCHANGED files
     ELSE \E part \in Parts \cup {NoPart} :
            IF part = NoPart
            THEN /\ req' = [req EXCEPT ![r].pc = "upload2"]
                 /\ UNCHANGED files
            ELSE IF ~FileFilter(part)
            THEN /\ req' = [req EXCEPT ![r] =
                              Finished(Send([q EXCEPT !.disallowed = TRUE],
                                            GlobalErrorResponse))]
                 /\ UNCHANGED files
            ELSE /\ files' = files \cup {StorageFilename(now, part)}
                 /\ req' = [req EXCEPT ![r].pc = "upload2",
                                       ![r].image = StorageFilename(now, part)]
  /\ UNCHANGED << held, db, nextId, now >>

\* the pdfFile part of the same upload; when it is refused multer removes the
\* files it has stored for this request
UploadFieldsPdf(r) ==
  LET q == req[r] IN
  /\ q.pc = "upload2"
  /\ \E part \in Parts \cup {NoPart} :
       IF part = NoPart
       THEN /\ req' = [req EXCEPT ![r].pc = "handler"]
            /\ UNCHANGED files
       ELSE IF ~FileFilter(part)
       THEN /\ req' = [req EXCEPT ![r] =
                         Finished(Send([q EXCEPT !.image = Absent,
                                                 !.disallowed = TRUE],
                                       GlobalErrorResponse))]
            /\ files' = files \ {q.image}
       ELSE /\ files' = files \cup {StorageFilename(now, part)}
            /\ req' = [req EXCEPT ![r].pc = "handler",
                                  ![r].pdf = StorageFilename(now, part)]
  /\ UNCHANGED << held, db, nextId, now >>

\* part_000: upload = multer({dest: "public/"}), upload.single("image"): no
\* filter, a random file name; disallowed records that the part is one the
\* allow-list of fileFilter refuses
UploadLegacy(r) ==
  LET q == req[r] IN
  /\ q.pc = "upload" /\ q.prog = "part_000"
  /\ IF q.ctype # "multipart"
     THEN /\ req' = [req EXCEPT ![r].pc = "handler"]
          /\ UNCHANGED files
     ELSE \/ /\ req' = [req EXCEPT ![r].pc = "handler"]
             /\ UNCHANGED files
          \/ \E name \in RandomNames \ files : \E part \in Parts :
               /\ files' = files \cup {name}
               /\ req' = [req EXCEPT ![r].pc = "handler", ![r].image = name,
                                     ![r].disallowed = ~FileFilter(part)]
  /\ UNCHANGED << held, db, nextId, now >>

(* ------------------------------ MySQL --------------------------------- *)
WithId(row, id) ==
  [id |-> id, title |-> row.title, content |-> row.content, link |-> row.link,
   category |-> row.category, image |-> row.image, pdf |-> row.pdf]

\* the rows a statement reads or touches: WHERE id = ?
Matching(st) ==
  IF st.table \in TableNames THEN { x \in db[st.table] : x.id = st.id } ELSE {}

\* what UPDATE ?? SET ... WHERE id = ? makes of a row of the table
Updated(st, x) ==
  IF x.id # st.id THEN x
  ELSE IF st.op = "updateApp"
  THEN [x EXCEPT !.title = st.row.title, !.content = st.row.content,
                 !.link = st.row.link, !.category = st.row.category,
                 !.image = st.row.image]
  ELSE [x EXCEPT !.pdf = st.row.pdf, !.image = st.row.image]

\* the server can execute the statement: the table exists (users always does)
Executable(st) ==
  /\ st.op # "selectUser" => st.table \in TableNames
  /\ st.op = "insert" => nextId <= MaxRows

\* MySQL executes the statement a request has sent, or fails it
DbExec(r) ==
  LET q == req[r]
      st == q.stmt
      after == IF q.pc = "query" THEN "resume" ELSE "done" IN
  /\ q.pc \in {"query", "bgquery"}
  /\ \/ /\ req' = [req EXCEPT ![r].pc = after, ![r].dbres = "err"]
        /\ UNCHANGED << db, nextId >>
     \/ /\ Executable(st)
        /\ CASE st.op = "selectUser" ->
                  /\ req' = [req EXCEPT ![r].pc = after, ![r].dbres = "ok",
                               ![r].rows = { u \in UsersTable : u.email = st.email }]
                  /\ UNCHANGED << db, nextId >>
             [] st.op = "insert" ->
                  /\ db' = [db EXCEPT ![st.table] =
                              @ \cup {WithId(st.row, ToString(nextId))}]
                  /\ nextId' = nextId + 1
                  /\ req' = [req EXCEPT ![r].pc = after, ![r].dbres = "ok",
                               ![r].affected = 1]
             [] st.op \in {"updateApp", "updateProject"} ->
                  /\ db' = [db EXCEPT ![st.table] = { Updated(st, x) : x \in @ }]
                  /\ req' = [req EXCEPT ![r].pc = after, ![r].dbres = "ok",
                               ![r].affected = Cardinality(Matching(st))]
                  /\ UNCHANGED nextId
             [] st.op = "select" ->
                  /\ req' = [req EXCEPT ![r].pc = after, ![r].dbres = "ok",
                               ![r].rows = db[st.table]]
                  /\ UNCHANGED << db, nextId >>
             [] st.op = "selectOne" ->
                  /\ req' = [req EXCEPT ![r].pc = after, ![r].dbres = "ok",
                               ![r].rows = Matching(st)]
                  /\ UNCHANGED << db, nextId >>
             [] st.op = "delete" ->
                  /\ db' = [db EXCEPT ![st.table] = @ \ Matching(st)]
                  /\ req' = [req EXCEPT ![r].pc = after, ![r].dbres = "ok",
                               ![r].affected = Cardinality(Matching(st))]
                  /\ UNCHANGED nextId
  /\ UNCHANGED << held, files, now >>

(* ------------------------------ pool ---------------------------------- *)
\* routes of server.js open with await pool.getConnection(); part_000 uses
\* pool.query, which leases and returns a connection inside the driver
UsesPool(q) == q.prog = "server" /\ q.route \notin {"send-mail", "/"}

\* pool.getConnection() grants a connection (waitForConnections: true)
CanAcquire(q) == UsesPool(q) => held < PoolSize

\* connection.release() in a finally block
Release(q) == [q EXCEPT !.conn = FALSE]
HeldAfterRelease(q) == IF q.conn THEN held - 1 ELSE held

\* the handler sends a statement and awaits it on the connection it took
Query(q, st) ==
  [q EXCEPT !.pc = "query", !.stmt = st, !.conn = UsesPool(q)]
HeldAfterQuery(q) == IF UsesPool(q) THEN held + 1 ELSE held

\* as Rejected, with the statement sent before the schema was consulted
RejectedAfterQuery(q, issues) ==
  Finished(Send([q EXCEPT !.validated = "fail", !.offending = Fields(issues),
                          !.stmt = [NoStmt EXCEPT !.op = "insert",
                                                  !.table = EscapeId(q.table)]],
                ZodErrorResponse(issues)))

\* schema.parse threw: finally releases, catch answers 400
Rejected(q, issues) ==
  Finished(Send([q EXCEPT !.validated = "fail", !.offending = Fields(issues)],
                ZodErrorResponse(issues)))

\* pool.getConnection() rejects (the database cannot be reached): the
\* route's catch block answers.  The request's table parameter and login
\* email are recorded as sent, the handler never reads them
AcquireFails(r) ==
  LET q == req[r] IN
  /\ q.pc = "handler" /\ UsesPool(q)
  /\ \E table \in (IF q.route = "login" THEN {Unread} ELSE TableValues),
        email \in (IF q.route = "login" THEN EmailValues ELSE {Unread}) :
       req' = [req EXCEPT ![r] =
                 Finished(Send([q EXCEPT !.table = table, !.email = email,
                                         !.dbres = "err"],
                               IF q.route \in GetRoutes
                               THEN QueryFailedResponse
                               ELSE UnexpectedResponse))]
  /\ UNCHANGED << held, db, nextId, files, now >>

(* ----------------------------- handlers ------------------------------- *)
\* POST /api/send-mail up to its first await
HandleSendMail(r) ==
  LET q == req[r] IN
  /\ q.pc = "handler" /\ q.route = "send-mail"
  /\ \E fullName \in TitleValues, contact \in ContactValues,
        message \in ContentValues :
       LET issues == formSchema([fullName |-> fullName, contact |-> contact,
                                 message |-> message]) IN
       req' = [req EXCEPT ![r] =
                 IF issues # << >> THEN Rejected(q, issues)
                 ELSE [q EXCEPT !.pc = "mail", !.validated = "pass"]]
  /\ UNCHANGED << held, db, nextId, files, now >>

\* fs.readFile and transporter.sendMail settle
MailDone(r) ==
  LET q == req[r] IN
  /\ q.pc = "mail"
  /\ \E resp \in { Response(200, "success", "Email sent successfully!"),
                   Response(500, "error",
                     "Failed to send email due to an external service error"),
                   UnexpectedResponse } :
       req' = [req EXCEPT ![r] = Finished(Send(q, resp))]
  /\ UNCHANGED << held, db, nextId, files, now >>

\* POST /api/login up to the SELECT
HandleLogin(r) ==
  LET q == req[r] IN
  /\ q.pc = "handler" /\ q.route = "login" /\ CanAcquire(q)
  /\ \E email \in EmailValues, password \in PasswordValues :
       LET issues == loginSchema([email |-> email, password |-> password])
           qe == [q EXCEPT !.email = email, !.password = password] IN
       IF issues # << >>
       THEN /\ req' = [req EXCEPT ![r] = Rejected(qe, issues)]
            /\ UNCHANGED held
       ELSE /\ req' = [req EXCEPT ![r] =
                         Query([qe EXCEPT !.validated = "pass"],
                               [NoStmt EXCEPT !.op = "selectUser",
                                              !.email = email])]
            /\ held' = HeldAfterQuery(q)
  /\ UNCHANGED << db, nextId, files, now >>

\* as ResumeLogin, without the test of rows[0]: user.password of undefined
\* throws and the catch block answers 500
ResumeLoginNoUserTest(r) ==
  LET q == req[r]
      user == CHOOSE u \in q.rows : TRUE
      resp == IF q.dbres = "err" \/ q.rows = {} THEN UnexpectedResponse
              ELSE IF ~BcryptCompare(q.password, user.password)
              THEN ZodErrorResponse(<< Issue("password", "Incorrect password") >>)
              ELSE [Response(200, "success", "Successfully Logged In!")
                      EXCEPT !.token = JwtSign(user)] IN
  /\ q.pc = "resume" /\ q.route = "login"
  /\ req' = [req EXCEPT ![r] = Finished(Send([q EXCEPT !.conn = FALSE], resp))]
  /\ held' = (IF q.conn THEN held - 1 ELSE held)
  /\ UNCHANGED << db, nextId, files, now >>

\* POST /api/login after the SELECT: rows[0], bcrypt.compare, jwt.sign
ResumeLogin(r) ==
  LET q == req[r]
      user == CHOOSE u \in q.rows : TRUE
      resp == IF q.dbres = "err" THEN UnexpectedResponse
              ELSE IF q.rows = {}
              THEN ZodErrorResponse(<< Issue("email", "User does not exist") >>)
              ELSE IF ~BcryptCompare(q.password, user.password)
              THEN ZodErrorResponse(<< Issue("password", "Incorrect password") >>)
              ELSE [Response(200, "success", "Successfully Logged In!")
                      EXCEPT !.token = JwtSign(user)] IN
  /\ q.pc = "resume" /\ q.route = "login"
  /\ req' = [req EXCEPT ![r] = Finished(Send(Release(q), resp))]
  /\ held' = HeldAfterRelease(q)
  /\ UNCHANGED << db, nextId, files, now >>

\* the string a handler passes to the schema for an attachment slot:
\* uploaded ? `${uploaded.filename}` : fallback
Attachment(uploaded, fallback) == IF uploaded # Absent THEN uploaded ELSE fallback

\* image ? image : "" (edit/projects)
OrEmpty(v) == IF v = Absent THEN "" ELSE v

SuccessResponse(message) == Response(200, "success", message)

\* the values bound to (title, content, link, category, image)
AppRow(in) ==
  [NoRow EXCEPT !.title = in.title, !.content = in.content, !.link = in.link,
                !.category = in.category, !.image = in.image]

\* POST /api/apps of server.js up to the INSERT
HandleCreateApp(r) ==
  LET q == req[r] IN
  /\ q.pc = "handler" /\ q.prog = "server" /\ q.route = "apps" /\ CanAcquire(q)
  /\ \E title \in TitleValues, content \in ContentValues, link \in LinkValues,
        category \in CategoryValues, table \in TableValues :
       LET qt == [q EXCEPT !.table = table]
           in == [title |-> title, content |-> content, link |-> link,
                  category |-> category, image |-> Attachment(q.image, "")]
           issues == schema(in) IN
       IF issues # << >>
       THEN /\ req' = [req EXCEPT ![r] = Rejected(qt, issues)]
            /\ UNCHANGED held
       ELSE /\ req' = [req EXCEPT ![r] =
                         Query([qt EXCEPT !.validated = "pass"],
                               [NoStmt EXCEPT !.op = "insert",
                                  !.table = EscapeId(table),
                                  !.row = AppRow(in)])]
            /\ held' = HeldAfterQuery(q)
  /\ UNCHANGED << db, nextId, files, now >>

\* POST /api/edit/apps up to the UPDATE
HandleEditApp(r) ==
  LET q == req[r] IN
  /\ q.pc = "handler" /\ q.route = "edit/apps" /\ CanAcquire(q)
  /\ \E title \in TitleValues, content \in ContentValues, link \in LinkValues,
        category \in CategoryValues, table \in TableValues,
        image \in ImageStrings, id \in IdValues :
       LET qt == [q EXCEPT !.table = table, !.bodyImage = image]
           in == [title |-> title, content |-> content, link |-> link,
                  category |-> category, image |-> Attachment(q.image, image),
                  id |-> id]
           issues == editSchema(in) IN
       IF issues # << >>
       THEN /\ req' = [req EXCEPT ![r] = Rejected(qt, issues)]
            /\ UNCHANGED held
       ELSE /\ req' = [req EXCEPT ![r] =
                         Query([qt EXCEPT !.validated = "pass"],
                               [NoStmt EXCEPT !.op = "updateApp",
                                  !.table = EscapeId(table), !.id = id,
                                  !.row = AppRow(in)])]
            /\ held' = HeldAfterQuery(q)
  /\ UNCHANGED << db, nextId, files, now >>

\* req.files["image"] with req.files undefined (multer left a request that
\* is not multipart untouched) throws after the connection was taken and
\* before the try whose finally releases it: the outer catch answers
FilesUndefined(q, table) ==
  Finished(Send([q EXCEPT !.conn = TRUE, !.table = table], UnexpectedResponse))

\* POST /api/projects of server.js up to the INSERT
HandleCreateProject(r) ==
  LET q == req[r] IN
  /\ q.pc = "handler" /\ q.prog = "server" /\ q.route = "projects"
  /\ CanAcquire(q)
  /\ IF q.ctype # "multipart"
     THEN /\ \E table \in TableValues :
               req' = [req EXCEPT ![r] =
                         [FilesUndefined(q, table) EXCEPT !.offending = {"image"}]]
          /\ held' = held + 1
     ELSE \E table \in TableValues :
       LET qt == [q EXCEPT !.table = table]
           in == [pdfFile |-> Attachment(q.pdf, ""),
                  image |-> Attachment(q.image, "")]
           issues == projectSchema(in) IN
       IF issues # << >>
       THEN /\ req' = [req EXCEPT ![r] = Rejected(qt, issues)]
            /\ UNCHANGED held
       ELSE /\ req' = [req EXCEPT ![r] =
                         Query([qt EXCEPT !.validated = "pass"],
                               [NoStmt EXCEPT !.op = "insert",
                                  !.table = EscapeId(table),
                                  !.row = [NoRow EXCEPT !.pdf = in.pdfFile,
                                                        !.image = in.image] ])]
            /\ held' = HeldAfterQuery(q)
  /\ UNCHANGED << db, nextId, files, now >>

\* POST /api/edit/projects up to the UPDATE
HandleEditProject(r) ==
  LET q == req[r] IN
  /\ q.pc = "handler" /\ q.route = "edit/projects" /\ CanAcquire(q)
  /\ IF q.ctype # "multipart"
     THEN /\ \E table \in TableValues, image \in ImageStrings,
                  pdfFile \in PdfStrings :
               req' = [req EXCEPT ![r] =
                         [FilesUndefined(q, table) EXCEPT
                            !.bodyImage = image, !.bodyPdfFile = pdfFile]]
          /\ held' = held + 1
     ELSE \E table \in TableValues, image \in ImageStrings,
             pdfFile \in PdfStrings, id \in IdValues :
       LET qt == [q EXCEPT !.table = table, !.bodyImage = image,
                           !.bodyPdfFile = pdfFile]
           in == [pdfFile |-> Attachment(q.pdf, OrEmpty(pdfFile)),
                  image |-> Attachment(q.image, OrEmpty(image)), id |-> id]
           issues == projectEditSchema(in) IN
       IF issues # << >>
       THEN /\ req' = [req EXCEPT ![r] = Rejected(qt, issues)]
            /\ UNCHANGED held
       ELSE /\ req' = [req EXCEPT ![r] =
                         Query([qt EXCEPT !.validated = "pass"],
                               [NoStmt EXCEPT !.op = "updateProject",
                                  !.table = EscapeId(table), !.id = id,
                                  !.row = [NoRow EXCEPT !.pdf = in.pdfFile,
                                                        !.image = in.image] ])]
            /\ held' = HeldAfterQuery(q)
  /\ UNCHANGED << db, nextId, files, now >>

\* as ResumeWrite, with a driver that also runs the completion callback
\* passed as third argument: its response precedes the handler's own
ResumeWriteWithCallback(r) ==
  LET q == req[r]
      viaCallback == IF q.dbres = "err"
                     THEN Response(500, Absent, "Database update failed")
                     ELSE IF q.route \in {"edit/apps", "edit/projects"}
                             /\ q.affected = 0
                     THEN Response(404, Absent, "Record not found")
                     ELSE Response(200, Absent, "Record updated successfully")
      resp == IF q.dbres = "err" THEN UnexpectedResponse
              ELSE SuccessResponse("Project updated successfully!") IN
  /\ q.pc = "resume" /\ q.route \in UploadRoutes
  /\ req' = [req EXCEPT ![r] =
                Finished(Send(Send(Release(q), viaCallback), resp))]
  /\ held' = HeldAfterRelease(q)
  /\ UNCHANGED << db, nextId, files, now >>

\* the create and edit routes of server.js after their awaited statement:
\* the promise resolved or rejected; finally releases the connection
ResumeWrite(r) ==
  LET q == req[r]
      resp == IF q.dbres = "err" THEN UnexpectedResponse
              ELSE IF q.route = "edit/apps"
              THEN SuccessResponse("Project updated successfully!")
              ELSE SuccessResponse("Project submitted successfully!") IN
  /\ q.pc = "resume" /\ q.route \in UploadRoutes
  /\ req' = [req EXCEPT ![r] = Finished(Send(Release(q), resp))]
  /\ held' = HeldAfterRelease(q)
  /\ UNCHANGED << db, nextId, files, now >>

\* POST /api/apps and POST /api/projects of part_000: the statement is sent
\* and not awaited, the success response follows at once
HandleCreateLegacy(r) ==
  LET q == req[r] IN
  /\ q.pc = "handler" /\ q.prog = "part_000" /\ q.route \in {"apps", "projects"}
  /\ \E title \in TitleValues, content \in ContentValues, link \in LinkValues,
        category \in CategoryValues, table \in TableValues :
       LET qt == [q EXCEPT !.table = table]
           in == [title |-> title, content |-> content, link |-> link,
                  category |-> category, image |-> Attachment(q.image, "")]
           issues == IF q.route = "apps" THEN schema(in) ELSE projectSchema(in)
           row == IF q.route = "apps" THEN AppRow(in)
                  ELSE [NoRow EXCEPT !.image = in.image] IN
       req' = [req EXCEPT ![r] =
                 IF issues # << >> THEN Rejected(qt, issues)
                 ELSE Send([qt EXCEPT !.validated = "pass", !.pc = "bgquery",
                              !.stmt = [NoStmt EXCEPT !.op = "insert",
                                          !.table = EscapeId(table),
                                          !.row = row]],
                           SuccessResponse("Project submitted successfully!"))]
  /\ UNCHANGED << held, db, nextId, files, now >>

\* !tableName, !id
Falsy(v) == v \in {Absent, ""}

\* the GET routes of server.js up to their statement: the table name (and,
\* for GET /api/edit/apps, the id) is looked at once a connection is held
HandleGet(r) ==
  LET q == req[r]
      op == CASE q.route \in {"get/apps", "get/projects"} -> "select"
              [] q.route \in {"get/edit/apps", "get/edit/projects"} -> "selectOne"
              [] OTHER -> "delete" IN
  /\ q.pc = "handler" /\ q.prog = "server" /\ q.route \in GetRoutes
  /\ CanAcquire(q)
  /\ \E tableName \in TableValues, id \in IdValues :
       LET qt == [q EXCEPT !.table = tableName] IN
       IF Falsy(tableName) \/ (q.route = "get/edit/apps" /\ Falsy(id))
       THEN /\ req' = [req EXCEPT ![r] =
                         Finished(Send(qt, Response(400, "fail",
                           IF q.route = "get/edit/apps"
                           THEN "Table or ID name is required"
                           ELSE "Table name is required")))]
            /\ UNCHANGED held
       ELSE /\ req' = [req EXCEPT ![r] =
                         Query(qt, [NoStmt EXCEPT !.op = op, !.table = tableName,
                                     !.id = IF op = "select" THEN Absent ELSE id])]
            /\ held' = HeldAfterQuery(q)
  /\ UNCHANGED << db, nextId, files, now >>

\* GET /api/apps and GET /api/projects of part_000: the table name is looked
\* at before the database is used
HandleGetLegacy(r) ==
  LET q == req[r] IN
  /\ q.pc = "handler" /\ q.prog = "part_000" /\ q.route \in GetRoutes
  /\ \E tableName \in TableValues :
       LET qt == [q EXCEPT !.table = tableName] IN
       req' = [req EXCEPT ![r] =
                 IF Falsy(tableName)
                 THEN Finished(Send(qt, Response(400, "fail", "Table name is required")))
                 ELSE Query(qt, [NoStmt EXCEPT !.op = "select", !.table = tableName])]
  /\ UNCHANGED << held, db, nextId, files, now >>

\* the GET routes after their awaited statement
ResumeGet(r) ==
  LET q == req[r]
      resp == IF q.dbres = "err" THEN QueryFailedResponse
              ELSE [Response(200, "success", Absent)
                      EXCEPT !.hasResults = TRUE, !.results = q.rows] IN
  /\ q.pc = "resume" /\ q.route \in GetRoutes
  /\ req' = [req EXCEPT ![r] = Finished(Send(Release(q), resp))]
  /\ held' = HeldAfterRelease(q)
  /\ UNCHANGED << db, nextId, files, now >>

\* the clock advances
\* GET / of server.js: `results` is not defined, so the async handler's
\* promise rejects with a ReferenceError before anything is sent.  Express
\* (the version that accepts app.all("*")) does not look at the promise a
\* handler returns: neither the 404 route nor the error handler runs
HandleRoot(r) ==
  LET q == req[r] IN
  /\ q.pc = "handler" /\ q.prog = "server" /\ q.route = "/"
  /\ req' = [req EXCEPT ![r].pc = "lost"]
  /\ UNCHANGED << held, db, nextId, files, now >>

Tick ==
  /\ now < MaxTime
  /\ now' = now + 1
  /\ UNCHANGED << req, held, db, nextId, files >>

\* the response has been delivered: the slot is free for another request
Deliver(r) ==
  /\ req[r].pc = "done"
  /\ req' = [req EXCEPT ![r] = Idle]
  /\ UNCHANGED << held, db, nextId, files, now >>

Next ==
  \/ Tick
  \/ \E r \in Slots : Arrive(r)
  \/ \E r \in Slots : UploadImageOnly(r)
  \/ \E r \in Slots : UploadFieldsImage(r)
  \/ \E r \in Slots : UploadFieldsPdf(r)
  \/ \E r \in Slots : UploadLegacy(r)
  \/ \E r \in Slots : AcquireFails(r)
  \/ \E r \in Slots : DbExec(r)
  \/ \E r \in Slots : HandleSendMail(r)
  \/ \E r \in Slots : MailDone(r)
  \/ \E r \in Slots : HandleLogin(r)
  \/ \E r \in Slots : ResumeLogin(r)
  \/ \E r \in Slots : HandleCreateApp(r)
  \/ \E r \in Slots : HandleEditApp(r)
  \/ \E r \in Slots : HandleCreateProject(r)
  \/ \E r \in Slots : HandleEditProject(r)
  \/ \E r \in Slots : ResumeWrite(r)
  \/ \E r \in Slots : HandleCreateLegacy(r)
  \/ \E r \in Slots : HandleGet(r)
  \/ \E r \in Slots : HandleRoot(r)
  \/ \E r \in Slots : HandleGetLegacy(r)
  \/ \E r \in Slots : ResumeGet(r)
  \/ \E r \in Slots : Deliver(r)

Spec == Init /\ [][Next]_vars

(* ------------------------------ claims -------------------------------- *)
Done(r) == req[r].pc = "done"
\* the create and edit routes of apps and projects
IsWrite(r) == req[r].route \in UploadRoutes
\* the responses a request has received so far
Statuses(r) == { req[r].resp[i].status : i \in 1..Len(req[r].resp) }

\* C1: a handler that has ended holds no pooled connection, and once no
\* request is in flight no connection is held
C1_ConnectionReleasedOnEveryExit ==
  /\ \A r \in Slots : Done(r) => ~req[r].conn
  /\ (\A r \in Slots : req[r].pc \in {"idle", "done"}) => held = 0

\* C2: a create or edit request whose schema validation failed has issued no
\* statement, is over, and was answered once, with 400 and status "fail"
C2_ValidationFailureIssuesNoStatement ==
  \A r \in Slots :
    (IsWrite(r) /\ req[r].validated = "fail") =>
      /\ req[r].stmt = NoStmt
      /\ req[r].dbres = "none"
      /\ Done(r)
      /\ Len(req[r].resp) = 1
      /\ req[r].resp[1].status = 400
      /\ req[r].resp[1].kind = "fail"

\* a create request with an uploaded image was refused by the schema
C2_Witness ==
  \E r \in Slots :
    /\ IsWrite(r) /\ req[r].validated = "fail"
    /\ req[r].image # Absent
    /\ req[r].table = "t1"

\* C3: a create or edit request that ended in a validation error has left no
\* file of its own in public/
C3_NoFileStoredBeforeValidation ==
  \A r \in Slots :
    (IsWrite(r) /\ req[r].validated = "fail") =>
      /\ req[r].image \notin files
      /\ req[r].pdf \notin files

\* C4: a create, update, read, readOne or delete request that supplies no
\* table name attempts no database statement (what the claimed rejection
\* with 400 before any query attempt comes to for the database)
C4_MissingTableAttemptsNoStatement ==
  \A r \in Slots :
    (req[r].route \in UploadRoutes \cup GetRoutes /\ Falsy(req[r].table)) =>
      req[r].stmt = NoStmt

\* C5: an edit request with valid fields whose UPDATE matched no row is
\* answered with 404 and with nothing else
C5_EditOfMissingRowIsNotFound ==
  \A r \in Slots :
    ( /\ req[r].route \in {"edit/apps", "edit/projects"}
      /\ Done(r) /\ req[r].validated = "pass"
      /\ req[r].dbres = "ok" /\ req[r].affected = 0 ) =>
      Statuses(r) = {404}

\* C6: in a create or edit route a statement that failed is answered with
\* 500 and never with success, and success is sent only once the statement
\* has completed without error
C6_FailedStatementIsNeverSuccess ==
  \A r \in Slots :
    IsWrite(r) =>
      /\ req[r].dbres = "err" => 200 \notin Statuses(r)
      /\ (req[r].dbres = "err" /\ Done(r)) => 500 \in Statuses(r)
      /\ 200 \in Statuses(r) => req[r].dbres = "ok"

\* C7: a response carries a token only in answer to a login whose fields
\* passed validation, whose SELECT succeeded, and for which a users row has
\* the submitted email and a hash of the submitted password; the token is
\* signed from that row
C7_TokenOnlyForVerifiedCredentials ==
  \A r \in Slots : \A i \in 1..Len(req[r].resp) :
    req[r].resp[i].token # NoToken =>
      /\ req[r].route = "login"
      /\ req[r].validated = "pass" /\ req[r].dbres = "ok"
      /\ req[r].resp[i].status = 200
      /\ \E u \in UsersTable :
           /\ u.email = req[r].email
           /\ u.password = BcryptHash(req[r].password)
           /\ req[r].resp[i].token = JwtSign(u)

\* a login was answered with a token
C7_Witness ==
  \E r \in Slots :
    /\ req[r].route = "login" /\ Done(r)
    /\ req[r].resp[1].token # NoToken

\* the submitted email is that of no users row
UnknownEmail(r) ==
  /\ req[r].email # Unread
  /\ ~ \E u \in UsersTable : u.email = req[r].email

UserDoesNotExist ==
  << ZodErrorResponse(<< Issue("email", "User does not exist") >>) >>

\* C8 (as claimed): every login whose email matches no users row is answered
\* with the 400 field error "User does not exist", whatever its other fields
C8_UnknownEmailAlwaysUserDoesNotExist ==
  \A r \in Slots :
    (req[r].route = "login" /\ Done(r) /\ UnknownEmail(r)) =>
      req[r].resp = UserDoesNotExist

\* C8 (amended): a login whose email and password pass the schema, whose
\* SELECT completes without error and whose email matches no users row is
\* answered with the 400 field error "User does not exist"
C8_ValidUnknownEmailUserDoesNotExist ==
  \A r \in Slots :
    ( /\ req[r].route = "login" /\ Done(r) /\ UnknownEmail(r)
      /\ req[r].validated = "pass" /\ req[r].dbres = "ok" ) =>
      req[r].resp = UserDoesNotExist

\* a valid login with an unknown email was answered after its SELECT
C8_Witness ==
  \E r \in Slots :
    /\ req[r].route = "login" /\ Done(r) /\ UnknownEmail(r)
    /\ req[r].validated = "pass" /\ req[r].dbres = "ok"
    /\ req[r].password = "pw"

\* C9: a contact, login, app or project submission with offending fields is
\* answered with 400 and every offending field has an entry in errors (the
\* half of the claim that does not count the entries of a field)
C9_EveryOffendingFieldReported ==
  \A r \in Slots :
    ( /\ req[r].route \in {"send-mail", "login"} \cup UploadRoutes
      /\ Done(r) /\ req[r].offending # {} ) =>
      /\ Len(req[r].resp) = 1
      /\ req[r].resp[1].status = 400
      /\ Fields(req[r].resp[1].errors) = req[r].offending

\* C10: GET /api/apps without db is answered with 400 whatever the pool and
\* the database do; with db naming an existing table whose SELECT succeeds
\* it is answered with 200 and the rows of the table
C10_ReadAppsWithoutDbIs400 ==
  \A r \in Slots :
    (req[r].route = "get/apps" /\ Done(r)) =>
      /\ Falsy(req[r].table) => Statuses(r) = {400}
      /\ (req[r].table \in TableNames /\ req[r].dbres = "ok") =>
           /\ Statuses(r) = {200}
           /\ req[r].resp[1].hasResults
           /\ req[r].resp[1].results = req[r].rows

\* C11: on a create or edit route, a request that carried a file whose
\* extension or declared MIME type is outside the allow-list has no file in
\* public/, issues no INSERT or UPDATE, and is answered with an error
C11_DisallowedFileIsRejected ==
  \A r \in Slots :
    (IsWrite(r) /\ req[r].disallowed) =>
      /\ req[r].image = Absent /\ req[r].pdf = Absent
      /\ req[r].stmt = NoStmt
      /\ Done(r) => (Statuses(r) # {} /\ \A s \in Statuses(r) : s >= 400)

\* the edit routes
IsEdit(r) == req[r].route \in {"edit/apps", "edit/projects"}
\* the value an attachment slot is to persist: the uploaded file's generated
\* name when there is one, otherwise the string the body supplies
Resolved(uploaded, supplied) == IF uploaded # Absent THEN uploaded ELSE supplied

\* C12: in an edit request whose body has been read, an UPDATE carries for
\* each attachment slot the uploaded file's name, or else the supplied string
\* unchanged; with neither an upload nor a non-empty string for image the
\* request ends in a validation error on image with no statement; and a
\* request that supplied a string for image and did not fail validation has
\* its UPDATE issued
C12_EditAttachmentResolution ==
  \A r \in Slots :
    (IsEdit(r) /\ req[r].bodyImage # Unread) =>
      /\ req[r].stmt.op # "none" =>
           /\ req[r].stmt.row.image = Resolved(req[r].image, req[r].bodyImage)
           /\ (req[r].route = "edit/projects"
                  /\ Resolved(req[r].pdf, req[r].bodyPdfFile) # Absent) =>
                req[r].stmt.row.pdf = Resolved(req[r].pdf, req[r].bodyPdfFile)
      /\ (Done(r) /\ Falsy(Resolved(req[r].image, req[r].bodyImage))) =>
           /\ req[r].validated = "fail" /\ "image" \in req[r].offending
           /\ req[r].stmt = NoStmt
           /\ Statuses(r) = {400}
      /\ (Done(r) /\ ~Falsy(Resolved(req[r].image, req[r].bodyImage))
             /\ req[r].validated # "fail") =>
           req[r].stmt.op # "none"

\* C13: every upload is stored under a name that no file in public/ has at
\* that moment, so no upload overwrites a stored file or shares its name with
\* another upload
C13_UploadNeverReusesStoredName ==
  [][\A r \in Slots :
       /\ (req'[r].image # req[r].image /\ req'[r].image # Absent) =>
            req'[r].image \notin files
       /\ (req'[r].pdf # req[r].pdf /\ req'[r].pdf # Absent) =>
            req'[r].pdf \notin files]_vars

\* C14: no request is sent more than one response, whatever the outcome of
\* its statement
C14_AtMostOneResponse ==
  \A r \in Slots : Len(req[r].resp) <= 1

\* an edit whose UPDATE matched no row, the outcome the completion callback
\* has an answer of its own for, has been answered once
C14_Witness ==
  \E r \in Slots :
    /\ IsEdit(r) /\ Done(r) /\ req[r].stmt.op # "none"
    /\ req[r].dbres = "ok" /\ req[r].affected = 0
    /\ Len(req[r].resp) = 1

\* a request whose handler waits for pool.getConnection() to grant
Waiting(r) ==
  req[r].pc = "handler" /\ UsesPool(req[r]) /\ held >= PoolSize
\* the requests in flight that hold a connection and will release it
Holders == { r \in Slots : req[r].conn /\ req[r].pc \notin {"idle", "done"} }

\* C15: every request can still be answered: none is left with no code to
\* answer it, and a request that waits for a connection waits for one that a
\* request in flight holds and will release
C15_EveryRequestCanBeAnswered ==
  \A r \in Slots :
    /\ req[r].pc # "lost"
    /\ Waiting(r) => Holders # {}
====
